---- MODULE Spec2Model ----
(***************************************************************************)
(* Label printing cost calculator (src/calculation.py).                    *)
(*                                                                         *)
(* The program is a script that is run from top to bottom on each change   *)
(* of its inputs: it searches the printing cylinder for the label width,   *)
(* lays the labels out across the web, and prices the job.  Its four       *)
(* calculation functions are pure.                                         *)
(*                                                                         *)
(* Real numbers are modelled twice.  The exact layer keeps them as exact   *)
(* rationals, a whole part and a proper fraction: [w, n, d] stands for     *)
(* w + n/d with 0 <= n < d and gcd(n,d) = 1; its inputs are chosen so that *)
(* every amount fits 32-bit numerators and denominators.  The float layer  *)
(* keeps them as Python keeps them, as IEEE 754 binary64 numbers           *)
(* [sign, m, e] standing for sign * m * 2^e with m of exactly 53 bits,     *)
(* rounded to nearest, ties to even, after each operation; the functions   *)
(* whose names end in _float are the program's functions on these numbers. *)
(* Lengths are in millimetres unless a name says otherwise.                *)
(***************************************************************************)
EXTENDS Integers, Sequences, FiniteSets, TLC

VARIABLES
    pc,       \* position of the run: "call" before, "return" after
    call,     \* the function applied (or the script run) and its arguments
    ret       \* the value it returned (None before the return)

vars == <<pc, call, ret>>

\* Python's None
None == [none |-> TRUE]

(***************************************************************************)
(* Exact rational arithmetic.                                              *)
(***************************************************************************)
Abs(k) == IF k < 0 THEN -k ELSE k

RECURSIVE GCD(_, _)
GCD(a, b) == IF b = 0 THEN a ELSE GCD(b, a % b)

Norm(w, n, d) ==
    LET n1 == n % d
        g  == GCD(d, n1)
    IN  [w |-> w + (n \div d), n |-> n1 \div g, d |-> d \div g]

RInt(k) == [w |-> k, n |-> 0, d |-> 1]

RFrac(p, q) == Norm(0, p, q)

RAdd(a, b) ==
    LET g == GCD(a.d, b.d)
        l == (a.d \div g) * b.d
    IN  Norm(a.w + b.w, a.n * (l \div a.d) + b.n * (l \div b.d), l)

RNeg(a) == Norm(-a.w, -a.n, a.d)

RSub(a, b) == RAdd(a, RNeg(b))

RMulInt(a, k) ==
    LET g == IF k = 0 THEN a.d ELSE GCD(a.d, Abs(k))
    IN  Norm(a.w * k, a.n * (k \div g), a.d \div g)

RDivInt(a, k) == Norm(a.w \div k, (a.w % k) * a.d + a.n, a.d * k)

RMul(a, b) ==
    LET g1 == GCD(b.d, a.n)
        g2 == GCD(a.d, b.n)
        ff == Norm(0, (a.n \div g1) * (b.n \div g2), (a.d \div g2) * (b.d \div g1))
    IN  RAdd(RAdd(RInt(a.w * b.w), RMulInt([w |-> 0, n |-> b.n, d |-> b.d], a.w)),
             RAdd(RMulInt([w |-> 0, n |-> a.n, d |-> a.d], b.w), ff))

\* n1/d1 <= n2/d2 for proper fractions, by their continued fractions
RECURSIVE FracLeq(_, _, _, _)
FracLeq(n1, d1, n2, d2) ==
    IF n1 = 0 THEN TRUE
    ELSE IF n2 = 0 THEN FALSE
    ELSE LET q1 == d1 \div n1
             q2 == d2 \div n2
         IN  IF q1 # q2 THEN q1 > q2
             ELSE FracLeq(d2 % n2, n2, d1 % n1, n1)

RLeq(a, b) == a.w < b.w \/ (a.w = b.w /\ FracLeq(a.n, a.d, b.n, b.d))

RLt(a, b) == ~RLeq(b, a)

RFloor(a) == a.w

\* a / b for b > 0
RDiv(a, b) == RDivInt(RMulInt(a, b.d), b.w * b.d + b.n)

\* Python's round(): to the nearest integer, a tie to the even one
RRound(a) ==
    IF 2 * a.n < a.d THEN a.w
    ELSE IF 2 * a.n > a.d THEN a.w + 1
    ELSE IF a.w % 2 = 0 THEN a.w ELSE a.w + 1

Zero == RInt(0)

(***************************************************************************)
(* Text: format specifications of f-strings, and substring search.         *)
(***************************************************************************)
RECURSIVE Pow10(_)
Pow10(k) == IF k = 0 THEN 1 ELSE 10 * Pow10(k - 1)

RECURSIVE ZeroPad(_, _)
ZeroPad(s, width) == IF Len(s) >= width THEN s ELSE ZeroPad("0" \o s, width)

\* f"{a:.kf}" for a >= 0 and k >= 1
FormatFixed(a, k) ==
    LET r == RRound(RMulInt(a, Pow10(k)))
    IN  ToString(r \div Pow10(k)) \o "." \o ZeroPad(ToString(r % Pow10(k)), k)

\* t in s
Contains(s, t) ==
    \E i \in 1..(Len(s) - Len(t) + 1) : SubSeq(s, i, i + Len(t) - 1) = t

(***************************************************************************)
(* Python's float is the IEEE 754 binary64 number of the machine.  The     *)
(* natural numbers below are of any size: a sequence of limbs under        *)
(* LimbBase, the least significant first, with no zero limb at the top;    *)
(* <<>> is 0.                                                              *)
(***************************************************************************)
LimbBits == 15
LimbBase == 32768

Pow2(k) == 2 ^ k

\* a without the zero limbs at its top
NTrim(a) ==
    IF a = <<>> \/ a[Len(a)] # 0 THEN a
    ELSE SubSeq(a, 1, Cardinality({i \in 1..Len(a) : \E j \in i..Len(a) : a[j] # 0}))

\* the limb of a at place i, 0 above its top
NLimb(a, i) == IF i <= Len(a) THEN a[i] ELSE 0

\* an int k >= 0, which is below LimbBase^3
NFromInt(k) ==
    NTrim(<<k % LimbBase, (k \div LimbBase) % LimbBase, k \div (LimbBase * LimbBase)>>)

RECURSIVE NToInt(_)
NToInt(a) == IF a = <<>> THEN 0 ELSE Head(a) + LimbBase * NToInt(Tail(a))


NZeros(k) == [i \in 1..k |-> 0]

\* the carry into limb i of a + b: a limb below i overflows and every limb
\* between it and i passes the carry on
NAddCarry(a, b, i) ==
    IF \E j \in 1..(i - 1) :
          /\ NLimb(a, j) + NLimb(b, j) >= LimbBase
          /\ \A k \in (j + 1)..(i - 1) : NLimb(a, k) + NLimb(b, k) = LimbBase - 1
    THEN 1 ELSE 0

NAdd(a, b) ==
    NTrim([i \in 1..((IF Len(a) >= Len(b) THEN Len(a) ELSE Len(b)) + 1) |->
              (NLimb(a, i) + NLimb(b, i) + NAddCarry(a, b, i)) % LimbBase] \o <<>>)

\* the borrow from limb i of a - b: a limb below i falls short and every limb
\* between it and i passes the borrow on
NSubBorrow(a, b, i) ==
    IF \E j \in 1..(i - 1) :
          /\ NLimb(a, j) < NLimb(b, j)
          /\ \A k \in (j + 1)..(i - 1) : NLimb(a, k) = NLimb(b, k)
    THEN 1 ELSE 0

\* a - b for a >= b
NSub(a, b) ==
    NTrim([i \in 1..Len(a) |->
              (NLimb(a, i) - NLimb(b, i) - NSubBorrow(a, b, i)) % LimbBase] \o <<>>)

\* -1, 0 or 1 as a is below, equal to or above b
NCmp(a, b) ==
    IF Len(a) < Len(b) THEN -1
    ELSE IF Len(a) > Len(b) THEN 1
    ELSE LET differing == {i \in 1..Len(a) : a[i] # b[i]}
         IN  IF differing = {} THEN 0
             ELSE LET top == CHOOSE i \in differing : \A j \in differing : j <= i
                  IN  IF a[top] < b[top] THEN -1 ELSE 1

\* a * k for 0 <= k <= LimbBase: the low halves of the products of the limbs
\* and, one limb up, their high halves
NMulSmall(a, k) ==
    NAdd([i \in 1..Len(a) |-> (a[i] * k) % LimbBase] \o <<>>,
         <<0>> \o [i \in 1..Len(a) |-> (a[i] * k) \div LimbBase])

\* a * b, the limbs of b by halves
RECURSIVE NMul(_, _)
NMul(a, b) ==
    IF Len(b) = 0 THEN <<>>
    ELSE IF Len(b) = 1 THEN NMulSmall(a, b[1])
    ELSE LET half == Len(b) \div 2
         IN  NAdd(NMul(a, SubSeq(b, 1, half)),
                  NZeros(half) \o NMul(a, SubSeq(b, half + 1, Len(b))))

\* a * 2^s
NShl(a, s) ==
    IF a = <<>> THEN <<>>
    ELSE NZeros(s \div LimbBits) \o NMulSmall(a, Pow2(s % LimbBits))

\* a div 2^s
NShr(a, s) ==
    LET limbs == s \div LimbBits
        bits == s % LimbBits
    IN  IF Len(a) <= limbs THEN <<>>
        ELSE NTrim([i \in 1..(Len(a) - limbs) |->
                       NLimb(a, i + limbs) \div Pow2(bits)
                           + (NLimb(a, i + limbs + 1) % Pow2(bits))
                                 * Pow2(LimbBits - bits)] \o <<>>)

\* the number of binary digits of a limb

\* the number of binary digits of a
BitLen(a) ==
    IF a = <<>> THEN 0 ELSE LimbBits * (Len(a) - 1)
                         + Cardinality({i \in 0..LimbBits : Pow2(i) <= a[Len(a)]})

NOdd(a) == a # <<>> /\ a[1] % 2 = 1

\* The next limb of r / d after the point, for r < d and d with all the
\* LimbBits digits in its top limb; shifted is r * LimbBase.  The two top
\* limbs of shifted over the top limb of d estimate the limb, by at most 2
\* too many
NLimbEstimate(shifted, d) ==
    LET two_limbs == NLimb(shifted, Len(d) + 1) * LimbBase + NLimb(shifted, Len(d))
    IN  IF two_limbs \div d[Len(d)] < LimbBase
        THEN two_limbs \div d[Len(d)] ELSE LimbBase - 1

NLimbOf(shifted, d, estimate) ==
    CHOOSE x \in (estimate - 2)..estimate :
        /\ 0 <= x
        /\ NCmp(NMulSmall(d, x), shifted) <= 0
        /\ NCmp(NMulSmall(d, x + 1), shifted) > 0

NLimbRest(shifted, d, limb) == <<<<limb>>, NSub(shifted, NMulSmall(d, limb))>>

\* <<the limb, in a sequence, and what is left>>: <<(r * LimbBase) div d,
\* (r * LimbBase) mod d>>
NDivideLimb(r, d) ==
    IF r = <<>> THEN <<<<0>>, <<>>>>
    ELSE NLimbRest(<<0>> \o r, d, NLimbOf(<<0>> \o r, d, NLimbEstimate(<<0>> \o r, d)))

\* for r < d, the next limbs of r / d after the point, and what is left, the
\* limbs by halves: after the high half, the low half of what the high half
\* left; once nothing is left the limbs that follow are 0
RECURSIVE NDivideLimbs(_, _, _)
RECURSIVE NDivideLow(_, _, _)
NDivideLimbs(r, d, limbs) ==
    IF limbs = 1 THEN NDivideLimb(r, d)
    ELSE NDivideLow(NDivideLimbs(r, d, limbs - (limbs \div 2)), d, limbs \div 2)

NDivideJoin(low, high_limbs) == <<low[1] \o high_limbs, low[2]>>

NDivideLow(high, d, half) ==
    IF high[2] = <<>> THEN <<NZeros(half) \o high[1], <<>>>>
    ELSE NDivideJoin(NDivideLimbs(high[2], d, half), high[1])

(***************************************************************************)
(* A float is sign * m * 2^e with m of exactly MantissaBits binary digits, *)
(* or the float 0.  Every operation returns the float nearest to the exact *)
(* result, a tie going to the even mantissa.  The amounts of the program   *)
(* are far from the largest and from the smallest float, so there is no    *)
(* overflow, no subnormal number and no NaN.                               *)
(***************************************************************************)
MantissaBits == 53
QuotientLimbs == 4

FloatZero == [sign |-> 1, m |-> <<>>, e |-> 0]

\* sign * m * 2^e for m of MantissaBits digits or, after a carry, of one more
FloatCarried(sign, m, e) ==
    IF BitLen(m) > MantissaBits THEN [sign |-> sign, m |-> NShr(m, 1), e |-> e + 1]
    ELSE [sign |-> sign, m |-> m, e |-> e]

\* the float nearest to sign * (q + f) * 2^e for q of MantissaBits digits and
\* 0 <= f < 1; half is -1, 0 or 1 as the digits cut off are below, equal to
\* or above one half, and sticky tells that more follows them
FloatRound(sign, q, half, sticky, e) ==
    IF half > 0 \/ (half = 0 /\ (sticky \/ NOdd(q)))
    THEN FloatCarried(sign, NAdd(q, <<1>>), e)
    ELSE [sign |-> sign, m |-> q, e |-> e]

\* the float nearest to sign * (n + f) * 2^e, n with k digits more than the
\* mantissa
FloatCut(sign, n, sticky, e, k) ==
    IF k <= 0 THEN [sign |-> sign, m |-> NShl(n, -k), e |-> e + k]
    ELSE FloatRound(sign, NShr(n, k),
                    NCmp(NSub(n, NShl(NShr(n, k), k)), NShl(<<1>>, k - 1)),
                    sticky, e + k)

\* the float nearest to sign * (n + f) * 2^e, where f is 0 unless sticky and
\* then 0 < f < 1; n has more than MantissaBits digits when sticky
FloatNearest(sign, n, sticky, e) ==
    IF n = <<>> THEN FloatZero
    ELSE FloatCut(sign, n, sticky, e, BitLen(n) - MantissaBits)

\* float(k) of an int k
FloatOfInt(k) == FloatNearest(IF k < 0 THEN -1 ELSE 1, NFromInt(Abs(k)), FALSE, 0)

\* the digits by which p is shifted to the left before p / q: p and q are
\* brought to the same number of digits, a whole number of limbs
QuotientShift(p, q) ==
    LET longer == IF BitLen(p) > BitLen(q) THEN BitLen(p) ELSE BitLen(q)
    IN  ((LimbBits - (longer % LimbBits)) % LimbBits) + longer - BitLen(p)

\* after is the limbs of the quotient after the point, and what is left;
\* first is its digit before the point
FloatQuotientDigits(sign, after, first, e) ==
    FloatNearest(sign, NTrim(after[1] \o first), after[2] # <<>>, e)

\* the float nearest to sign * (n / d) * 2^e * LimbBase^QuotientLimbs for n
\* and d of the same number of digits: the quotient is taken to
\* QuotientLimbs limbs after the point, which is beyond the mantissa
FloatQuotientAligned(sign, n, d, first, e) ==
    FloatQuotientDigits(sign, NDivideLimbs(IF first THEN NSub(n, d) ELSE n, d, QuotientLimbs),
                        IF first THEN <<1>> ELSE <<>>, e)

\* the float nearest to sign * (p / q) * 2^e for q > 0
FloatQuotient(sign, p, q, e) ==
    IF p = <<>> THEN FloatZero
    ELSE FloatQuotientAligned(sign, NShl(p, QuotientShift(p, q)), NShl(q, QuotientShift(q, p)),
                              NCmp(NShl(p, QuotientShift(p, q)), NShl(q, QuotientShift(q, p))) >= 0,
                              e + BitLen(p) - BitLen(q) - QuotientLimbs * LimbBits)

\* the float of a decimal literal, or of a number typed into an input, the
\* decimal given as a rational
FloatOf(a) ==
    LET p == a.w * a.d + a.n
    IN  FloatQuotient(IF p < 0 THEN -1 ELSE 1, NFromInt(Abs(p)), NFromInt(a.d), 0)

FloatNeg(a) == IF a.m = <<>> THEN a ELSE [a EXCEPT !.sign = -a.sign]

\* sign_a * x * 2^e + sign_b * y * 2^e
FloatAddAligned(sign_a, x, sign_b, y, e) ==
    FloatNearest(IF sign_a = sign_b \/ NCmp(x, y) >= 0 THEN sign_a ELSE sign_b,
                 IF sign_a = sign_b THEN NAdd(x, y)
                 ELSE IF NCmp(x, y) >= 0 THEN NSub(x, y) ELSE NSub(y, x),
                 FALSE, e)

\* a + b
FloatAdd(a, b) ==
    IF a.m = <<>> THEN b
    ELSE IF b.m = <<>> THEN a
    ELSE FloatAddAligned(a.sign, NShl(a.m, IF a.e <= b.e THEN 0 ELSE a.e - b.e),
                         b.sign, NShl(b.m, IF a.e <= b.e THEN b.e - a.e ELSE 0),
                         IF a.e <= b.e THEN a.e ELSE b.e)

\* a - b
FloatSub(a, b) == FloatAdd(a, FloatNeg(b))

\* a * b
FloatMul(a, b) ==
    IF a.m = <<>> \/ b.m = <<>> THEN FloatZero
    ELSE FloatNearest(a.sign * b.sign, NMul(a.m, b.m), FALSE, a.e + b.e)

\* a / b for b other than 0
FloatDiv(a, b) == FloatQuotient(a.sign * b.sign, a.m, b.m, a.e - b.e)

\* -1, 0 or 1 as a is below, equal to or above b
FloatCmp(a, b) ==
    IF a.m = <<>> THEN (IF b.m = <<>> THEN 0 ELSE -b.sign)
    ELSE IF b.m = <<>> \/ a.sign # b.sign THEN a.sign
    ELSE IF a.e # b.e THEN (IF a.e < b.e THEN -a.sign ELSE a.sign)
    ELSE a.sign * NCmp(a.m, b.m)

FloatLeq(a, b) == FloatCmp(a, b) <= 0

FloatLt(a, b) == FloatCmp(a, b) < 0

\* math.floor(a), an int, for a with digits after the point; q is what is
\* before the point
FloatFloorOf(a, q) ==
    IF a.sign > 0 THEN NToInt(q)
    ELSE IF NShl(q, -a.e) = a.m THEN -NToInt(q) ELSE -NToInt(q) - 1

\* math.floor(a), an int
FloatFloor(a) ==
    IF a.e >= 0 THEN a.sign * NToInt(NShl(a.m, a.e))
    ELSE FloatFloorOf(a, NShr(a.m, -a.e))

\* a float k units in the last place of a away from it, for a > 0
FloatUlps(a, k) ==
    FloatNearest(a.sign, IF k >= 0 THEN NAdd(a.m, NFromInt(k)) ELSE NSub(a.m, NFromInt(-k)), FALSE, a.e)

(***************************************************************************)
(* Constants (src/calculation.py, lines 8-20).                             *)
(***************************************************************************)
PITCH == RFrac(3175, 1000)
GAP_MIN == RFrac(25, 10)
GAP_MAX == RInt(4)
Z_MIN == 70
Z_MAX == 140
tolerance == RFrac(1, 1000000000)
WORKING_WIDTH == 190
WIDTH_GAP == 5
WIDTH_WASTE == 10
MAX_MATERIAL_WIDTH == 200
BASE_WASTE_LENGTH == 50
WASTE_LENGTH_PER_COLOR == 50
SETUP_TIME_PER_COLOR_OR_BASE == 30
CLEANUP_TIME_MIN == 30
MACHINE_SPEED_DEFAULT == 30
MACHINE_SPEED_MIN == 10
GRAMS_INK_PER_M2 == 3
GRAMS_VARNISH_PER_M2 == 4
INK_PRICE_PER_KG_DEFAULT == 2350
VARNISH_PRICE_PER_KG_DEFAULT == 1800
MACHINE_LABOR_PRICE_PER_HOUR_DEFAULT == 3000
TOOL_PRICE_SEMIROTARY_DEFAULT == 6000
TOOL_PRICE_ROTARY_DEFAULT == 8000
PROFIT_COEFFICIENT_DEFAULT == RFrac(20, 100)
PLATE_PRICE_PER_COLOR_DEFAULT == 2000
\* DEFAULT_MATERIALS_PRICES["Paper (chrome)"]
DEFAULT_MATERIAL_PRICE == RFrac(3995, 100)

(***************************************************************************)
(* find_cylinder_specifications                                            *)
(***************************************************************************)
Solution(z, circumference_C, n, gap_G_circumference) ==
    [number_of_teeth_Z |-> z,
     circumference_mm |-> circumference_C,
     templates_N_circumference |-> n,
     gap_G_circumference_mm |-> gap_G_circumference]

\* line 47
NMaxPossible(circumference_C, template_width_W) ==
    RFloor(RDiv(circumference_C, RAdd(template_width_W, GAP_MIN)))

\* line 52: the limits of the gap, GAP_MIN - tolerance and GAP_MAX + tolerance
GapLowerLimit == RSub(GAP_MIN, tolerance)
GapUpperLimit == RAdd(GAP_MAX, tolerance)

\* Accepted with the upper limit of the gap left out
Accepted_NoUpperLimit(candidate) ==
    /\ candidate.templates_N_circumference # 0
    /\ RLeq(GapLowerLimit, candidate.gap_G_circumference_mm)

\* lines 49-52: is the pair (z, n) of this candidate appended to the list
Accepted(candidate) ==
    /\ candidate.templates_N_circumference # 0
    /\ RLeq(GapLowerLimit, candidate.gap_G_circumference_mm)
    /\ RLeq(candidate.gap_G_circumference_mm, GapUpperLimit)

\* lines 48-53: for n in range(1, n_max_possible + 1), the solutions it
\* appends, in the order of n
RepeatLoop(z, circumference_C, n_max_possible, template_width_W) ==
    SelectSeq([n \in 1..n_max_possible |->
                  Solution(z, circumference_C, n,
                           RSub(RDivInt(circumference_C, n), template_width_W))],
              Accepted)

\* lines 44-53: for z in range(z, Z_MAX + 1), the solutions it appends
RECURSIVE TeethLoop(_, _)
TeethLoop(z, template_width_W) ==
    IF z > Z_MAX THEN <<>>
    ELSE LET circumference_C == RMulInt(PITCH, z)
         IN  (IF RLeq(RAdd(template_width_W, GAP_MIN), tolerance)
              THEN <<>>
              ELSE RepeatLoop(z, circumference_C,
                              NMaxPossible(circumference_C, template_width_W),
                              template_width_W))
             \o TeethLoop(z + 1, template_width_W)

\* SortKeyLess with the key (Z, N): the repeats ascending
SortKeyLess_RepeatsAscending(a, b) ==
    \/ a.number_of_teeth_Z < b.number_of_teeth_Z
    \/ /\ a.number_of_teeth_Z = b.number_of_teeth_Z
       /\ a.templates_N_circumference < b.templates_N_circumference

\* line 57: the key of the sort, (Z, -N), compared as Python compares tuples
SortKeyLess(a, b) ==
    \/ a.number_of_teeth_Z < b.number_of_teeth_Z
    \/ /\ a.number_of_teeth_Z = b.number_of_teeth_Z
       /\ -a.templates_N_circumference < -b.templates_N_circumference

\* line 57: list.sort(key) is a stable sort: an element comes after those of
\* smaller key and after those of equal key that came before it
SortSolutions(s) ==
    LET before(j, i) == SortKeyLess(s[j], s[i]) \/ (j < i /\ ~SortKeyLess(s[i], s[j]))
        rank == [i \in 1..Len(s) |->
                    1 + Cardinality({j \in 1..Len(s) : before(j, i)})] \o <<>>
    IN  [r \in 1..Len(s) |-> s[CHOOSE i \in 1..Len(s) : rank[i] = r]] \o <<>>

NoCylinderMessage(template_width_W) ==
    "No cylinder found (" \o ToString(Z_MIN) \o "-" \o ToString(Z_MAX)
        \o " teeth) for W=" \o FormatFixed(template_width_W, 3)
        \o "mm with G=" \o FormatFixed(GAP_MIN, 1) \o "-" \o FormatFixed(GAP_MAX, 1)
        \o "mm."

\* find_cylinder_specifications rejecting only the widths below zero
find_cylinder_specifications_ZeroWidth(template_width_W) ==
    IF RLt(template_width_W, Zero)
    THEN <<None, <<>>, "Error: Template width must be > 0.">>
    ELSE LET valid_solutions == TeethLoop(Z_MIN, template_width_W)
         IN  IF valid_solutions = <<>>
             THEN <<None, <<>>, NoCylinderMessage(template_width_W)>>
             ELSE LET sorted == SortSolutions(valid_solutions)
                  IN  <<sorted[1], sorted, "Circumference calculation OK.">>

\* lines 41-58; the result is the tuple <<best, all, message>>
find_cylinder_specifications(template_width_W) ==
    IF RLeq(template_width_W, Zero)
    THEN <<None, <<>>, "Error: Template width must be > 0.">>
    ELSE LET valid_solutions == TeethLoop(Z_MIN, template_width_W)
         IN  IF valid_solutions = <<>>
             THEN <<None, <<>>, NoCylinderMessage(template_width_W)>>
             ELSE LET sorted == SortSolutions(valid_solutions)
                  IN  <<sorted[1], sorted, "Circumference calculation OK.">>

(***************************************************************************)
(* calculate_number_across_width, calculate_material_width, format_time    *)
(***************************************************************************)
\* calculate_number_across_width with the gap taken off the label height
calculate_number_across_width_GapSubtracted(template_height_H, working_width, width_gap) ==
    IF RLeq(template_height_H, Zero) THEN 0
    ELSE IF RLt(working_width, template_height_H) THEN 0
    ELSE IF /\ RLeq(template_height_H, working_width)
            /\ RLt(working_width, RAdd(RMulInt(template_height_H, 2), width_gap))
         THEN 1
    ELSE LET denominator == RSub(template_height_H, width_gap)
         IN  IF RLeq(denominator, tolerance) THEN 0
             ELSE RFloor(RDiv(RAdd(working_width, width_gap), denominator))

\* lines 60-66
calculate_number_across_width(template_height_H, working_width, width_gap) ==
    IF RLeq(template_height_H, Zero) THEN 0
    ELSE IF RLt(working_width, template_height_H) THEN 0
    ELSE IF /\ RLeq(template_height_H, working_width)
            /\ RLt(working_width, RAdd(RMulInt(template_height_H, 2), width_gap))
         THEN 1
    ELSE LET denominator == RAdd(template_height_H, width_gap)
         IN  IF RLeq(denominator, tolerance) THEN 0
             ELSE RFloor(RDiv(RAdd(working_width, width_gap), denominator))

\* Python's max for two integers
Max(a, b) == IF a >= b THEN a ELSE b

\* calculate_material_width without the test of the number of labels
calculate_material_width_NoLabels(number_across_width_y, template_height_H, width_gap, width_waste) ==
    LET total_template_width == RMulInt(template_height_H, number_across_width_y)
        total_gap_width == RMulInt(width_gap, Max(0, number_across_width_y - 1))
    IN  RAdd(RAdd(total_template_width, total_gap_width), width_waste)

\* calculate_material_width with the gaps taken off the width
calculate_material_width_GapsSubtracted(number_across_width_y, template_height_H, width_gap, width_waste) ==
    IF number_across_width_y <= 0 THEN Zero
    ELSE LET total_template_width == RMulInt(template_height_H, number_across_width_y)
             total_gap_width == RMulInt(width_gap, Max(0, number_across_width_y - 1))
         IN  RAdd(RSub(total_template_width, total_gap_width), width_waste)

\* lines 68-72
calculate_material_width(number_across_width_y, template_height_H, width_gap, width_waste) ==
    IF number_across_width_y <= 0 THEN Zero
    ELSE LET total_template_width == RMulInt(template_height_H, number_across_width_y)
             total_gap_width == RMulInt(width_gap, Max(0, number_across_width_y - 1))
         IN  RAdd(RAdd(total_template_width, total_gap_width), width_waste)

\* format_time taking a whole hour for minutes
format_time_HourAsMinutes(total_minutes) ==
    IF RLt(total_minutes, Zero) THEN "N/A"
    ELSE LET rounded == RRound(total_minutes)
             hours == rounded \div 60
             minutes == rounded % 60
         IN  IF rounded = 0 THEN "0 min"
             ELSE IF rounded <= 60 THEN ToString(rounded) \o " min"
             ELSE IF minutes = 0 THEN ToString(hours) \o " h"
             ELSE ToString(hours) \o " h " \o ToString(minutes) \o " min"

\* lines 74-81
format_time(total_minutes) ==
    IF RLt(total_minutes, Zero) THEN "N/A"
    ELSE LET rounded == RRound(total_minutes)
             hours == rounded \div 60
             minutes == rounded % 60
         IN  IF rounded = 0 THEN "0 min"
             ELSE IF rounded < 60 THEN ToString(rounded) \o " min"
             ELSE IF minutes = 0 THEN ToString(hours) \o " h"
             ELSE ToString(hours) \o " h " \o ToString(minutes) \o " min"

(***************************************************************************)
(* The calculation functions on floats: the same lines of the source, the  *)
(* arithmetic being that of the machine.                                   *)
(***************************************************************************)
\* the int nearest to n * 2^e for e < 0, a tie going to the even one; q is
\* what is before the point
FloatScaledNearest(n, e, q) ==
    IF NCmp(NSub(n, NShl(q, -e)), NShl(<<1>>, -e - 1)) > 0
       \/ (NCmp(NSub(n, NShl(q, -e)), NShl(<<1>>, -e - 1)) = 0 /\ NOdd(q))
    THEN NToInt(q) + 1 ELSE NToInt(q)

\* the int nearest to a * 10^k for a >= 0, a tie going to the even one
FloatScaledRound(a, k) ==
    IF a.e >= 0 THEN NToInt(NShl(NMulSmall(a.m, Pow10(k)), a.e))
    ELSE FloatScaledNearest(NMulSmall(a.m, Pow10(k)), a.e,
                            NShr(NMulSmall(a.m, Pow10(k)), -a.e))

\* f"{a:.kf}" for a float a >= 0 and k >= 1
FloatFormatFixed(a, k) ==
    LET r == FloatScaledRound(a, k)
    IN  ToString(r \div Pow10(k)) \o "." \o ZeroPad(ToString(r % Pow10(k)), k)

FloatPITCH == FloatOf(PITCH)
FloatGAP_MIN == FloatOf(GAP_MIN)
FloatGAP_MAX == FloatOf(GAP_MAX)
FloatTolerance == FloatOf(tolerance)

\* line 45
FloatCircumference(z) == FloatMul(FloatOfInt(z), FloatPITCH)

\* line 47
FloatNMaxPossible(circumference_C, template_width_W) ==
    FloatFloor(FloatDiv(circumference_C, FloatAdd(template_width_W, FloatGAP_MIN)))

\* line 50
FloatGap(circumference_C, n, template_width_W) ==
    FloatSub(FloatDiv(circumference_C, FloatOfInt(n)), template_width_W)

\* line 52: the limits of the gap
FloatGapLowerLimit == FloatSub(FloatGAP_MIN, FloatTolerance)
FloatGapUpperLimit == FloatAdd(FloatGAP_MAX, FloatTolerance)

\* lines 49-52
FloatAccepted(candidate) ==
    /\ candidate.templates_N_circumference # 0
    /\ FloatLeq(FloatGapLowerLimit, candidate.gap_G_circumference_mm)
    /\ FloatLeq(candidate.gap_G_circumference_mm, FloatGapUpperLimit)

\* lines 48-53
FloatRepeatLoop(z, circumference_C, n_max_possible, template_width_W) ==
    SelectSeq([n \in 1..n_max_possible |->
                  Solution(z, circumference_C, n,
                           FloatGap(circumference_C, n, template_width_W))],
              FloatAccepted)

\* lines 46-53: the solutions appended for one z
FloatRepeats(z, circumference_C, template_width_W) ==
    IF FloatLeq(FloatAdd(template_width_W, FloatGAP_MIN), FloatTolerance)
    THEN <<>>
    ELSE FloatRepeatLoop(z, circumference_C,
                         FloatNMaxPossible(circumference_C, template_width_W),
                         template_width_W)

\* lines 44-53: for z in range(first, last + 1), the solutions appended, in
\* the order of z; the range is walked by halves
RECURSIVE FloatTeethLoop(_, _, _)
FloatTeethLoop(first, last, template_width_W) ==
    IF first > last THEN <<>>
    ELSE IF first = last
         THEN FloatRepeats(first, FloatCircumference(first), template_width_W)
    ELSE LET middle == (first + last) \div 2
         IN  FloatTeethLoop(first, middle, template_width_W)
             \o FloatTeethLoop(middle + 1, last, template_width_W)

FloatNoCylinderMessage(template_width_W) ==
    "No cylinder found (" \o ToString(Z_MIN) \o "-" \o ToString(Z_MAX)
        \o " teeth) for W=" \o FloatFormatFixed(template_width_W, 3)
        \o "mm with G=" \o FloatFormatFixed(FloatGAP_MIN, 1) \o "-"
        \o FloatFormatFixed(FloatGAP_MAX, 1) \o "mm."

\* lines 57-58
FloatBestFirst(sorted) == <<sorted[1], sorted, "Circumference calculation OK.">>

\* lines 54-58
FloatSolutions(valid_solutions, template_width_W) ==
    IF valid_solutions = <<>>
    THEN <<None, <<>>, FloatNoCylinderMessage(template_width_W)>>
    ELSE FloatBestFirst(SortSolutions(valid_solutions))

\* lines 41-58
find_cylinder_specifications_float(template_width_W) ==
    IF FloatLeq(template_width_W, FloatZero)
    THEN <<None, <<>>, "Error: Template width must be > 0.">>
    ELSE FloatSolutions(FloatTeethLoop(Z_MIN, Z_MAX, template_width_W), template_width_W)

\* lines 64-66
FloatGeneralFormula(working_width, width_gap, denominator) ==
    IF FloatLeq(denominator, FloatTolerance) THEN 0
    ELSE FloatFloor(FloatDiv(FloatAdd(working_width, width_gap), denominator))

\* lines 60-66
calculate_number_across_width_float(template_height_H, working_width, width_gap) ==
    IF FloatLeq(template_height_H, FloatZero) THEN 0
    ELSE IF FloatLt(working_width, template_height_H) THEN 0
    ELSE IF /\ FloatLeq(template_height_H, working_width)
            /\ FloatLt(working_width,
                       FloatAdd(FloatMul(template_height_H, FloatOfInt(2)), width_gap))
         THEN 1
    ELSE FloatGeneralFormula(working_width, width_gap,
                             FloatAdd(template_height_H, width_gap))

\* lines 68-72
calculate_material_width_float(number_across_width_y, template_height_H, width_gap, width_waste) ==
    IF number_across_width_y <= 0 THEN FloatZero
    ELSE LET total_template_width == FloatMul(FloatOfInt(number_across_width_y), template_height_H)
             total_gap_width == FloatMul(FloatOfInt(Max(0, number_across_width_y - 1)), width_gap)
         IN  FloatAdd(FloatAdd(total_template_width, total_gap_width), width_waste)

(***************************************************************************)
(* The script, lines 136-213: from the inputs of the sidebar and the       *)
(* prices of the session to the quote.                                     *)
(***************************************************************************)
\* line 150
ValidNumColors(is_blank, num_colors_input) ==
    IF is_blank THEN 0 ELSE IF num_colors_input >= 1 THEN num_colors_input ELSE 1

\* lines 157-158
ProductionLength(number_across_width_y, quantity_input, template_width_W_input, gap_G_circumference_mm) ==
    IF number_across_width_y > 0
    THEN LET segment_length_mm == RAdd(template_width_W_input, gap_G_circumference_mm)
         IN  RDivInt(RMul(RDivInt(RInt(quantity_input), number_across_width_y),
                          segment_length_mm), 1000)
    ELSE Zero

\* lines 157, 159
ProductionArea(number_across_width_y, required_material_width_mm, total_production_length_m) ==
    IF RLt(Zero, required_material_width_mm) /\ number_across_width_y > 0
    THEN RMul(total_production_length_m, RDivInt(required_material_width_mm, 1000))
    ELSE Zero

\* lines 157, 159-161
ProductionConsumptionMessage(number_across_width_y, required_material_width_mm) ==
    IF RLt(Zero, required_material_width_mm) /\ number_across_width_y > 0 THEN ""
    ELSE IF number_across_width_y > 0 THEN "Width=0, area N/A."
    ELSE "y=0, consumption N/A."

\* lines 164-166
WasteLength(is_blank, valid_num_colors_for_calc) ==
    IF is_blank THEN RInt(BASE_WASTE_LENGTH)
    ELSE RInt(BASE_WASTE_LENGTH + valid_num_colors_for_calc * WASTE_LENGTH_PER_COLOR)

\* lines 164, 167
WasteArea(required_material_width_mm, waste_length_m) ==
    IF RLt(Zero, required_material_width_mm)
    THEN RMul(waste_length_m, RDivInt(required_material_width_mm, 1000))
    ELSE Zero

\* line 175
ProductionTime(total_production_length_m, machine_speed_m_min) ==
    IF RLt(Zero, total_production_length_m) /\ machine_speed_m_min > 0
    THEN RDivInt(total_production_length_m, machine_speed_m_min)
    ELSE Zero

\* lines 180-181
InkCost(is_blank, valid_num_colors_for_calc, total_production_area_m2, ink_price_per_kg) ==
    IF ~is_blank /\ valid_num_colors_for_calc > 0 /\ RLt(Zero, total_production_area_m2)
    THEN LET ink_consumption_g ==
                 RMulInt(RMulInt(total_production_area_m2, valid_num_colors_for_calc),
                         GRAMS_INK_PER_M2)
             ink_consumption_kg == RDivInt(ink_consumption_g, 1000)
         IN  RMul(ink_consumption_kg, ink_price_per_kg)
    ELSE Zero

\* lines 180, 182
VarnishCost(is_uv_varnish_input, total_production_area_m2, varnish_price_per_kg) ==
    IF is_uv_varnish_input /\ RLt(Zero, total_production_area_m2)
    THEN LET varnish_consumption_g == RMulInt(total_production_area_m2, GRAMS_VARNISH_PER_M2)
             varnish_consumption_kg == RDivInt(varnish_consumption_g, 1000)
         IN  RMul(varnish_consumption_kg, varnish_price_per_kg)
    ELSE Zero

\* lines 186-187
PlateCost(is_blank, valid_num_colors_for_calc, plate_price_per_color) ==
    IF ~is_blank /\ valid_num_colors_for_calc > 0
    THEN RMulInt(plate_price_per_color, valid_num_colors_for_calc)
    ELSE Zero

\* lines 190-191
MaterialCost(total_final_area_m2, price_per_m2_input) ==
    IF RLt(Zero, total_final_area_m2) /\ RLeq(Zero, price_per_m2_input)
    THEN RMul(total_final_area_m2, price_per_m2_input)
    ELSE Zero

\* lines 194-195
MachineLaborCost(total_time_min, machine_labor_price_per_hour) ==
    IF RLt(Zero, total_time_min) /\ RLeq(Zero, machine_labor_price_per_hour)
    THEN LET total_time_h == RDivInt(total_time_min, 60)
         IN  RMul(total_time_h, machine_labor_price_per_hour)
    ELSE Zero

\* lines 198-201
ToolCost(selected_tool_key, tool_price_semirotary, tool_price_rotary) ==
    IF selected_tool_key = "Semirotary" THEN tool_price_semirotary
    ELSE IF selected_tool_key = "Rotary" THEN tool_price_rotary
    ELSE Zero

\* line 205
TotalProductionCost(total_ink_varnish_cost_rsd, total_plate_cost_rsd, total_material_cost_rsd, total_machine_labor_cost_rsd, total_tool_cost_rsd) ==
    RAdd(RAdd(RAdd(RAdd(total_ink_varnish_cost_rsd, total_plate_cost_rsd),
                   total_material_cost_rsd),
              total_machine_labor_cost_rsd),
         total_tool_cost_rsd)

\* Profit as the material cost marked up, the cost included
Profit_CostIncluded(total_material_cost_rsd, profit_coefficient_input) ==
    IF RLt(Zero, total_material_cost_rsd) /\ RLt(Zero, profit_coefficient_input)
    THEN RAdd(total_material_cost_rsd,
              RMul(total_material_cost_rsd, profit_coefficient_input))
    ELSE Zero

\* lines 208-209
Profit(total_material_cost_rsd, profit_coefficient_input) ==
    IF RLt(Zero, total_material_cost_rsd) /\ RLt(Zero, profit_coefficient_input)
    THEN RMul(total_material_cost_rsd, profit_coefficient_input)
    ELSE Zero

\* TotalSellingPrice with the profit left out
TotalSellingPrice_WithoutProfit(total_production_cost_rsd, profit_rsd) ==
    total_production_cost_rsd

\* line 212
TotalSellingPrice(total_production_cost_rsd, profit_rsd) ==
    RAdd(total_production_cost_rsd, profit_rsd)

\* line 213
SellingPricePerPiece(total_selling_price_rsd, quantity_input) ==
    IF quantity_input > 0 THEN RDivInt(total_selling_price_rsd, quantity_input) ELSE Zero

\* line 136
InputsValid(in) ==
    /\ in.template_width_W_input # Zero
    /\ in.template_height_H_input # Zero
    /\ in.quantity_input > 0
    /\ in.machine_speed_m_min # 0

\* lines 144-213: the quote, given the best solution and the labels across
Quote(in, best_circumference_solution, number_across_width_y) ==
    LET number_circumference_x == best_circumference_solution.templates_N_circumference
        gap_G_circumference_mm == best_circumference_solution.gap_G_circumference_mm
        valid_num_colors_for_calc == ValidNumColors(in.is_blank, in.num_colors_input)
        required_material_width_mm ==
            calculate_material_width(number_across_width_y, in.template_height_H_input,
                                     RInt(WIDTH_GAP), RInt(WIDTH_WASTE))
        total_production_length_m ==
            ProductionLength(number_across_width_y, in.quantity_input,
                             in.template_width_W_input, gap_G_circumference_mm)
        total_production_area_m2 ==
            ProductionArea(number_across_width_y, required_material_width_mm,
                           total_production_length_m)
        num_colors_for_waste_time == IF in.is_blank THEN 1 ELSE valid_num_colors_for_calc
        waste_length_m == WasteLength(in.is_blank, valid_num_colors_for_calc)
        waste_area_m2 == WasteArea(required_material_width_mm, waste_length_m)
        total_final_area_m2 == RAdd(total_production_area_m2, waste_area_m2)
        setup_time_min == RInt(num_colors_for_waste_time * SETUP_TIME_PER_COLOR_OR_BASE)
        production_time_min ==
            ProductionTime(total_production_length_m, in.machine_speed_m_min)
        cleanup_time_min == RInt(CLEANUP_TIME_MIN)
        total_time_min == RAdd(RAdd(setup_time_min, production_time_min), cleanup_time_min)
        ink_cost_rsd == InkCost(in.is_blank, valid_num_colors_for_calc,
                                total_production_area_m2, in.session_state.ink_price_per_kg)
        varnish_cost_rsd == VarnishCost(in.is_uv_varnish_input, total_production_area_m2,
                                        in.session_state.varnish_price_per_kg)
        total_ink_varnish_cost_rsd == RAdd(ink_cost_rsd, varnish_cost_rsd)
        total_plate_cost_rsd == PlateCost(in.is_blank, valid_num_colors_for_calc,
                                          in.session_state.plate_price_per_color)
        total_material_cost_rsd == MaterialCost(total_final_area_m2, in.price_per_m2_input)
        total_machine_labor_cost_rsd ==
            MachineLaborCost(total_time_min, in.session_state.machine_labor_price_per_hour)
        total_tool_cost_rsd == ToolCost(in.selected_tool_key,
                                        in.session_state.tool_price_semirotary,
                                        in.session_state.tool_price_rotary)
        total_production_cost_rsd ==
            TotalProductionCost(total_ink_varnish_cost_rsd, total_plate_cost_rsd,
                                total_material_cost_rsd, total_machine_labor_cost_rsd,
                                total_tool_cost_rsd)
        profit_rsd == Profit(total_material_cost_rsd, in.profit_coefficient_input)
        total_selling_price_rsd == TotalSellingPrice(total_production_cost_rsd, profit_rsd)
    IN  [outcome |-> "quote",
         best_circumference_solution |-> best_circumference_solution,
         number_across_width_y |-> number_across_width_y,
         total_templates_per_cycle |-> number_across_width_y * number_circumference_x,
         valid_num_colors_for_calc |-> valid_num_colors_for_calc,
         required_material_width_mm |-> required_material_width_mm,
         material_width_exceeded |->
             RLt(RInt(MAX_MATERIAL_WIDTH), required_material_width_mm),
         total_production_length_m |-> total_production_length_m,
         total_production_area_m2 |-> total_production_area_m2,
         production_consumption_message |->
             ProductionConsumptionMessage(number_across_width_y,
                                          required_material_width_mm),
         num_colors_for_waste_time |-> num_colors_for_waste_time,
         waste_length_m |-> waste_length_m,
         waste_area_m2 |-> waste_area_m2,
         total_final_length_m |-> RAdd(total_production_length_m, waste_length_m),
         total_final_area_m2 |-> total_final_area_m2,
         setup_time_min |-> setup_time_min,
         production_time_min |-> production_time_min,
         cleanup_time_min |-> cleanup_time_min,
         total_time_min |-> total_time_min,
         ink_cost_rsd |-> ink_cost_rsd,
         varnish_cost_rsd |-> varnish_cost_rsd,
         total_ink_varnish_cost_rsd |-> total_ink_varnish_cost_rsd,
         total_plate_cost_rsd |-> total_plate_cost_rsd,
         total_material_cost_rsd |-> total_material_cost_rsd,
         total_machine_labor_cost_rsd |-> total_machine_labor_cost_rsd,
         total_tool_cost_rsd |-> total_tool_cost_rsd,
         total_production_cost_rsd |-> total_production_cost_rsd,
         profit_rsd |-> profit_rsd,
         total_selling_price_rsd |-> total_selling_price_rsd,
         selling_price_per_piece_rsd |->
             SellingPricePerPiece(total_selling_price_rsd, in.quantity_input)]

\* the label widths, label heights, quantities and speeds of the runs
ToolKeys == {"None", "Semirotary", "Rotary"}
ScriptWidths == {RInt(76), RInt(123), RInt(300)}
ScriptHeights == {RInt(76), RFrac(305, 10), RInt(190), RFrac(1905, 10), RInt(250)}
ScriptQuantities == {1000, 10000}
ScriptSpeeds == {MACHINE_SPEED_MIN, MACHINE_SPEED_DEFAULT}

\* line 141: the search, evaluated once for each label width of the runs
CylinderSpecifications ==
    {<<w, find_cylinder_specifications(w)>> : w \in ScriptWidths}

\* lines 136-307: one run of the script
Script(in) ==
    IF ~InputsValid(in) THEN [outcome |-> "inputs"]
    ELSE LET found == (CHOOSE p \in CylinderSpecifications :
                          p[1] = in.template_width_W_input)[2]
             number_across_width_y ==
                 calculate_number_across_width(in.template_height_H_input,
                                               RInt(WORKING_WIDTH), RInt(WIDTH_GAP))
         IN  IF found[1] # None
             THEN Quote(in, found[1], number_across_width_y)
             ELSE [outcome |-> "no cylinder", circumference_message |-> found[3]]

(***************************************************************************)
(* Direct calls of find_cylinder_specifications, one per label width of    *)
(* a grid of WidthStep millimetres, from below zero to beyond the largest  *)
(* cylinder.                                                               *)
(***************************************************************************)
MaxWidthIndex == 900
WidthStep == RFrac(1, 2)
WidthInputs == {RMulInt(WidthStep, k) : k \in (-1)..MaxWidthIndex}

InitGeometry ==
    /\ pc = "call"
    /\ call \in {[fn |-> "find_cylinder_specifications", template_width_W |-> w] :
                  w \in WidthInputs}
    /\ ret = None

FindCylinder ==
    /\ pc = "call"
    /\ call.fn = "find_cylinder_specifications"
    /\ ret' = find_cylinder_specifications(call.template_width_W)
    /\ pc' = "return"
    /\ UNCHANGED call

NextGeometry == FindCylinder

SpecGeometry == InitGeometry /\ [][NextGeometry]_vars

(***************************************************************************)
(* Direct calls of calculate_number_across_width: label heights on a grid  *)
(* of HeightStep millimetres from below zero to beyond the working width,  *)
(* on the press (working width 190, gap 5) and on a narrower web, with a   *)
(* gap of 5, of 0 and of -5.                                               *)
(***************************************************************************)
MaxHeightIndex == 400
HeightStep == RFrac(1, 2)
HeightInputs == {RMulInt(HeightStep, k) : k \in (-2)..MaxHeightIndex}
WorkingWidthInputs == {RInt(WORKING_WIDTH), RInt(WORKING_WIDTH \div 2)}
WidthGapInputs == {RInt(WIDTH_GAP), Zero, RInt(-WIDTH_GAP)}

InitAcross ==
    /\ pc = "call"
    /\ call \in {[fn |-> "calculate_number_across_width", template_height_H |-> h,
                   working_width |-> u, width_gap |-> g] :
                  h \in HeightInputs, u \in WorkingWidthInputs, g \in WidthGapInputs}
    /\ ret = None

NumberAcrossWidth ==
    /\ pc = "call"
    /\ call.fn = "calculate_number_across_width"
    /\ ret' = calculate_number_across_width(call.template_height_H,
                                            call.working_width, call.width_gap)
    /\ pc' = "return"
    /\ UNCHANGED call

NextAcross == NumberAcrossWidth

SpecAcross == InitAcross /\ [][NextAcross]_vars

(***************************************************************************)
(* Direct calls of calculate_material_width: a count of labels from below  *)
(* zero up to MaxAcross and a label height above zero, with the gap and    *)
(* waste of the press and with none.                                       *)
(***************************************************************************)
MaxAcross == 20
AcrossInputs == (-1)..MaxAcross
LabelHeightInputs == {h \in HeightInputs : RLt(Zero, h)}
GapWasteInputs == {<<RInt(WIDTH_GAP), RInt(WIDTH_WASTE)>>, <<Zero, Zero>>}

InitMaterialWidth ==
    /\ pc = "call"
    /\ call \in {[fn |-> "calculate_material_width", number_across_width_y |-> y,
                   template_height_H |-> h, width_gap |-> gw[1], width_waste |-> gw[2]] :
                  y \in AcrossInputs, h \in LabelHeightInputs, gw \in GapWasteInputs}
    /\ ret = None

MaterialWidth ==
    /\ pc = "call"
    /\ call.fn = "calculate_material_width"
    /\ ret' = calculate_material_width(call.number_across_width_y, call.template_height_H,
                                       call.width_gap, call.width_waste)
    /\ pc' = "return"
    /\ UNCHANGED call

NextMaterialWidth == MaterialWidth

SpecMaterialWidth == InitMaterialWidth /\ [][NextMaterialWidth]_vars

(***************************************************************************)
(* Direct calls of format_time: quarters of a minute from below zero.      *)
(***************************************************************************)
MaxMinuteIndex == 800
MinuteStep == RFrac(1, 4)
MinuteInputs == {RMulInt(MinuteStep, k) : k \in (-4)..MaxMinuteIndex}

InitFormatTime ==
    /\ pc = "call"
    /\ call \in {[fn |-> "format_time", total_minutes |-> m] : m \in MinuteInputs}
    /\ ret = None

FormatTime ==
    /\ pc = "call"
    /\ call.fn = "format_time"
    /\ ret' = format_time(call.total_minutes)
    /\ pc' = "return"
    /\ UNCHANGED call

NextFormatTime == FormatTime

SpecFormatTime == InitFormatTime /\ [][NextFormatTime]_vars

(***************************************************************************)
(* Runs of the script on inputs the sidebar admits: width and height from  *)
(* 0.1 mm, a quantity from 1, 1 to 8 colours, a speed of 10 to 120 m/min,  *)
(* prices from 0, a profit coefficient of 0.01 to 2.00.                    *)
(***************************************************************************)
MaxColors == 2
DefaultPrices ==
    [ink_price_per_kg |-> RInt(INK_PRICE_PER_KG_DEFAULT),
     varnish_price_per_kg |-> RInt(VARNISH_PRICE_PER_KG_DEFAULT),
     plate_price_per_color |-> RInt(PLATE_PRICE_PER_COLOR_DEFAULT),
     machine_labor_price_per_hour |-> RInt(MACHINE_LABOR_PRICE_PER_HOUR_DEFAULT),
     tool_price_semirotary |-> RInt(TOOL_PRICE_SEMIROTARY_DEFAULT),
     tool_price_rotary |-> RInt(TOOL_PRICE_ROTARY_DEFAULT)]
FreePrices ==
    [ink_price_per_kg |-> Zero, varnish_price_per_kg |-> Zero,
     plate_price_per_color |-> Zero, machine_labor_price_per_hour |-> Zero,
     tool_price_semirotary |-> Zero, tool_price_rotary |-> Zero]
ScriptInputs(colors, material_prices, coefficients, sessions) ==
    [template_width_W_input : ScriptWidths,
     template_height_H_input : ScriptHeights,
     quantity_input : ScriptQuantities,
     is_blank : BOOLEAN,
     num_colors_input : colors,
     is_uv_varnish_input : BOOLEAN,
     machine_speed_m_min : ScriptSpeeds,
     selected_tool_key : ToolKeys,
     price_per_m2_input : material_prices,
     profit_coefficient_input : coefficients,
     session_state : sessions]

InitScript ==
    /\ pc = "call"
    /\ \E in \in ScriptInputs(1..MaxColors, {Zero, DEFAULT_MATERIAL_PRICE},
                               {PROFIT_COEFFICIENT_DEFAULT, RFrac(1, 2), RInt(2)},
                               {DefaultPrices, FreePrices}) :
          call = [fn |-> "script", in |-> in]
    /\ ret = None

RunScript ==
    /\ pc = "call"
    /\ call.fn = "script"
    /\ ret' = Script(call.in)
    /\ pc' = "return"
    /\ UNCHANGED call

NextScript == RunScript

SpecScript == InitScript /\ [][NextScript]_vars

(***************************************************************************)
(* Runs of the pricing on rates out of range: each price and the profit    *)
(* coefficient is its default or the default below zero.                   *)
(***************************************************************************)
OutOfRange(rate) == {rate, RNeg(rate)}
OutOfRangeSessions ==
    [ink_price_per_kg : OutOfRange(RInt(INK_PRICE_PER_KG_DEFAULT)),
     varnish_price_per_kg : OutOfRange(RInt(VARNISH_PRICE_PER_KG_DEFAULT)),
     plate_price_per_color : OutOfRange(RInt(PLATE_PRICE_PER_COLOR_DEFAULT)),
     machine_labor_price_per_hour : OutOfRange(RInt(MACHINE_LABOR_PRICE_PER_HOUR_DEFAULT)),
     tool_price_semirotary : OutOfRange(RInt(TOOL_PRICE_SEMIROTARY_DEFAULT)),
     tool_price_rotary : OutOfRange(RInt(TOOL_PRICE_ROTARY_DEFAULT))]

InitOutOfRange ==
    /\ pc = "call"
    /\ \E in \in [template_width_W_input : {RInt(76)},
                   template_height_H_input : {RInt(76), RInt(250)},
                   quantity_input : {1000},
                   is_blank : BOOLEAN,
                   num_colors_input : 1..MaxColors,
                   is_uv_varnish_input : BOOLEAN,
                   machine_speed_m_min : {MACHINE_SPEED_DEFAULT},
                   selected_tool_key : ToolKeys,
                   price_per_m2_input : OutOfRange(DEFAULT_MATERIAL_PRICE),
                   profit_coefficient_input : OutOfRange(PROFIT_COEFFICIENT_DEFAULT),
                   session_state : OutOfRangeSessions] :
          call = [fn |-> "script", in |-> in]
    /\ ret = None

SpecOutOfRange == InitOutOfRange /\ [][NextScript]_vars

(***************************************************************************)
(* The material width of the script on floats: label heights typed into    *)
(* the sidebar, on a grid of HeightStep millimetres and the floats next to *)
(* them, and the heights of zero and below that the functions test for.    *)
(***************************************************************************)
MaxFloatHeightIndex == 400

\* line 153: the test of the material width; lines 231-237: the message shown
MaterialWidthExceeded(number_across_width_y, required_material_width_mm, material_width_exceeded) ==
    [number_across_width_y |-> number_across_width_y,
     required_material_width_mm |-> required_material_width_mm,
     material_width_exceeded |-> material_width_exceeded,
     material_width_shown |->
         IF number_across_width_y > 0
         THEN (IF ~material_width_exceeded THEN "OK" ELSE "EXCEEDED")
         ELSE "N/A"]

\* lines 152-153: the material width of the labels across
MaterialWidthOf(number_across_width_y, required_material_width_mm) ==
    MaterialWidthExceeded(number_across_width_y, required_material_width_mm,
        FloatLt(FloatOfInt(MAX_MATERIAL_WIDTH), required_material_width_mm))

\* line 152
MaterialWidthAcross(template_height_H_input, number_across_width_y) ==
    MaterialWidthOf(number_across_width_y,
        calculate_material_width_float(number_across_width_y, template_height_H_input,
            FloatOfInt(WIDTH_GAP), FloatOfInt(WIDTH_WASTE)))

\* lines 142, 152-153 and 231-237: the labels across, the material width,
\* the test of it and the message shown
RequiredMaterialWidth(template_height_H_input) ==
    MaterialWidthAcross(template_height_H_input,
        calculate_number_across_width_float(template_height_H_input,
            FloatOfInt(WORKING_WIDTH), FloatOfInt(WIDTH_GAP)))

InitMaterialWidthFloat ==
    /\ pc = "call"
    /\ call \in {[fn |-> "required_material_width", template_height_H_input |-> h] :
                  h \in {FloatUlps(FloatOf(RMulInt(HeightStep, k)), u) :
                             k \in 1..MaxFloatHeightIndex, u \in (-1)..1}
                        \cup {FloatOf(RMulInt(HeightStep, k)) : k \in (-2)..0}}
    /\ ret = None

MaterialWidthFloat ==
    /\ pc = "call"
    /\ call.fn = "required_material_width"
    /\ ret' = RequiredMaterialWidth(call.template_height_H_input)
    /\ pc' = "return"
    /\ UNCHANGED call

NextMaterialWidthFloat == MaterialWidthFloat

SpecMaterialWidthFloat == InitMaterialWidthFloat /\ [][NextMaterialWidthFloat]_vars

(***************************************************************************)
(* Direct calls of calculate_number_across_width on floats: label heights  *)
(* of one decimal up to beyond the webs, on the press (working width 190,  *)
(* gap 5), on the press with no gap, and on a web of 289.9 with a gap of   *)
(* 0.1.                                                                    *)
(***************************************************************************)
MaxFloatHeightTenths == 3000

InitAcrossFloat ==
    /\ pc = "call"
    /\ call \in {[fn |-> "calculate_number_across_width_float", template_height_H |-> h,
                   working_width |-> web[1], width_gap |-> web[2]] :
                  h \in {FloatOf(RFrac(k, 10)) : k \in 1..MaxFloatHeightTenths},
                  web \in {<<FloatOfInt(WORKING_WIDTH), FloatOfInt(WIDTH_GAP)>>,
                           <<FloatOfInt(WORKING_WIDTH), FloatZero>>,
                           <<FloatOf(RFrac(2899, 10)), FloatOf(RFrac(1, 10))>>}}
    /\ ret = None

NumberAcrossWidthFloat ==
    /\ pc = "call"
    /\ call.fn = "calculate_number_across_width_float"
    /\ ret' = calculate_number_across_width_float(call.template_height_H,
                                                  call.working_width, call.width_gap)
    /\ pc' = "return"
    /\ UNCHANGED call

NextAcrossFloat == NumberAcrossWidthFloat

SpecAcrossFloat == InitAcrossFloat /\ [][NextAcrossFloat]_vars

(***************************************************************************)
(* Direct calls of find_cylinder_specifications on floats: the label       *)
(* widths of two decimals from 63.30 upwards, where five or six labels go  *)
(* round the larger cylinders, and the width 35.6.                         *)
(***************************************************************************)
MaxFloatWidthIndex == 60

InitGeometryFloat ==
    /\ pc = "call"
    /\ call \in {[fn |-> "find_cylinder_specifications_float", template_width_W |-> w] :
                  w \in {FloatOf(RFrac(6330 + k, 100)) : k \in 0..MaxFloatWidthIndex}
                        \cup {FloatOf(RFrac(356, 10))}}
    /\ ret = None

FindCylinderFloat ==
    /\ pc = "call"
    /\ call.fn = "find_cylinder_specifications_float"
    /\ ret' = find_cylinder_specifications_float(call.template_width_W)
    /\ pc' = "return"
    /\ UNCHANGED call

NextGeometryFloat == FindCylinderFloat

SpecGeometryFloat == InitGeometryFloat /\ [][NextGeometryFloat]_vars

Returned(fn) == pc = "return" /\ call.fn = fn

QuoteProduced == Returned("script") /\ ret.outcome = "quote"

\* every solution the call returned: the list, and the best one
ReturnedSolutions ==
    {ret[2][i] : i \in 1..Len(ret[2])} \cup (IF ret[1] = None THEN {} ELSE {ret[1]})

\* 2.5 - 1e-9 and 4.0 + 1e-9
LeastGap == RSub(RFrac(5, 2), RFrac(1, 1000000000))
GreatestGap == RAdd(RInt(4), RFrac(1, 1000000000))

\* C1: for a label width W > 0, every solution find_cylinder_specifications
\* returns (the best one and each of the list) has 70 <= Z <= 140 teeth,
\* N >= 1 repeats, the circumference Z * 3.175, the gap circumference/N - W,
\* and that gap within [2.5 - 1e-9, 4.0 + 1e-9].
C1_SolutionsWithinLimits ==
    (Returned("find_cylinder_specifications") /\ RLt(Zero, call.template_width_W)) =>
        \A sol \in ReturnedSolutions :
            /\ sol.number_of_teeth_Z \in 70..140
            /\ sol.templates_N_circumference >= 1
            /\ sol.circumference_mm = RMulInt(RFrac(3175, 1000), sol.number_of_teeth_Z)
            /\ sol.gap_G_circumference_mm =
                   RSub(RDivInt(sol.circumference_mm, sol.templates_N_circumference),
                        call.template_width_W)
            /\ RLeq(LeastGap, sol.gap_G_circumference_mm)
            /\ RLeq(sol.gap_G_circumference_mm, GreatestGap)

\* a call that returned several solutions, one of them with the gap at a limit
C1_Witness ==
    /\ Returned("find_cylinder_specifications")
    /\ RLt(Zero, call.template_width_W)
    /\ Len(ret[2]) >= 2
    /\ \E i \in 1..Len(ret[2]) : ret[2][i].gap_G_circumference_mm = RInt(4)

\* C2: a non-empty list returned by find_cylinder_specifications is ordered
\* by Z ascending and, for equal Z, by N descending; the best solution is its
\* first element, so no solution has fewer teeth, none with as many teeth has
\* more repeats, and none with as many teeth has a smaller gap.
C2_SortedBestFirst ==
    (Returned("find_cylinder_specifications") /\ ret[2] # <<>>) =>
        /\ \A i \in 1..(Len(ret[2]) - 1) :
              \/ ret[2][i].number_of_teeth_Z < ret[2][i + 1].number_of_teeth_Z
              \/ /\ ret[2][i].number_of_teeth_Z = ret[2][i + 1].number_of_teeth_Z
                 /\ ret[2][i].templates_N_circumference
                        >= ret[2][i + 1].templates_N_circumference
        /\ ret[1] = ret[2][1]
        /\ \A i \in 1..Len(ret[2]) :
              /\ ret[1].number_of_teeth_Z <= ret[2][i].number_of_teeth_Z
              /\ ret[1].number_of_teeth_Z = ret[2][i].number_of_teeth_Z =>
                    /\ ret[1].templates_N_circumference
                           >= ret[2][i].templates_N_circumference
                    /\ RLeq(ret[1].gap_G_circumference_mm,
                            ret[2][i].gap_G_circumference_mm)

\* a list with two solutions on the smallest cylinder and one on a larger
C2_Witness ==
    /\ Returned("find_cylinder_specifications")
    /\ Len(ret[2]) >= 3
    /\ ret[2][1].number_of_teeth_Z = ret[2][2].number_of_teeth_Z
    /\ ret[2][1].templates_N_circumference > ret[2][2].templates_N_circumference
    /\ ret[2][Len(ret[2])].number_of_teeth_Z > ret[2][1].number_of_teeth_Z

\* some (Z, N) gives the width W a gap within the limits; the repeats that
\* can do so lie between circumference/(W + 5) and circumference/(W + 2)
Feasible(W) ==
    \E z \in 70..140 :
        LET C == RMulInt(RFrac(3175, 1000), z)
        IN  \E n \in RFloor(RDiv(C, RAdd(W, RInt(5))))
                        ..(RFloor(RDiv(C, RAdd(W, RInt(2)))) + 1) :
                /\ n >= 1
                /\ RLeq(LeastGap, RSub(RDivInt(C, n), W))
                /\ RLeq(RSub(RDivInt(C, n), W), GreatestGap)

\* C3: find_cylinder_specifications returns a triple in every case; for
\* W <= 0 it is (None, empty list, a diagnostic containing "must be"); for
\* W > 0 with no feasible (Z, N) it is (None, empty list, a diagnostic other
\* than that of W <= 0); and the best solution is None exactly when the list
\* is empty.
C3_FailsSoftly ==
    Returned("find_cylinder_specifications") =>
        /\ Len(ret) = 3
        /\ (ret[1] = None) <=> (ret[2] = <<>>)
        /\ RLeq(call.template_width_W, Zero) =>
              /\ ret[1] = None
              /\ ret[2] = <<>>
              /\ Contains(ret[3], "must be")
        /\ (RLt(Zero, call.template_width_W) /\ ~Feasible(call.template_width_W)) =>
              /\ ret[1] = None
              /\ ret[2] = <<>>
              /\ ret[3] # "Error: Template width must be > 0."
              /\ ~Contains(ret[3], "must be")

\* a call with a width above zero that no cylinder fits
C3_Witness ==
    /\ Returned("find_cylinder_specifications")
    /\ RLt(Zero, call.template_width_W)
    /\ ~Feasible(call.template_width_W)
    /\ ret[2] = <<>>

C6_NonDecreasingInAcross ==
    Returned("calculate_material_width") =>
        \A n2 \in AcrossInputs :
            call.number_across_width_y <= n2 =>
                RLeq(ret, calculate_material_width(n2, call.template_height_H,
                                                   call.width_gap, call.width_waste))

\* a label narrower than the gap, laid out several times with gaps between
C6_Witness ==
    /\ Returned("calculate_material_width")
    /\ call.number_across_width_y >= 2
    /\ RLt(call.template_height_H, call.width_gap)
    /\ RLt(Zero, ret)

\* the integers nearest to m
Nearest(m) == {r \in {RFloor(m), RFloor(m) + 1} :
                  /\ RLeq(RSub(m, RInt(r)), RFrac(1, 2))
                  /\ RLeq(RSub(RInt(r), m), RFrac(1, 2))}

\* C8: format_time(m) is "N/A" for m < 0; otherwise, with r an integer
\* nearest to m, it is "0 min" if r = 0, "r min" if 0 < r < 60, "h h" if r
\* is a multiple of 60 (h = r/60), and "h h k min" otherwise, with
\* h = r div 60 and 1 <= k <= 59.
C8_FormatTimeCases ==
    Returned("format_time") =>
        IF RLt(call.total_minutes, Zero) THEN ret = "N/A"
        ELSE \E r \in Nearest(call.total_minutes) :
                /\ r = 0 => ret = "0 min"
                /\ (0 < r /\ r < 60) => ret = ToString(r) \o " min"
                /\ (r >= 60 /\ r % 60 = 0) => ret = ToString(r \div 60) \o " h"
                /\ (r >= 60 /\ r % 60 # 0) =>
                      \E k \in 1..59 :
                          /\ r = 60 * (r \div 60) + k
                          /\ ret = ToString(r \div 60) \o " h "
                                       \o ToString(k) \o " min"

\* a time of exactly one hour, rendered in hours
C8_Witness ==
    /\ Returned("format_time")
    /\ call.total_minutes = RInt(60)
    /\ ret = "1 h"

\* C4: in every quote, the total production cost is the ink and varnish
\* cost + plate cost + material cost + machine labor cost + tool cost, and
\* the total selling price is the total production cost + the profit.
C4_PriceIsCostPlusProfit ==
    QuoteProduced =>
        /\ ret.total_production_cost_rsd =
              RAdd(RAdd(RAdd(RAdd(ret.total_ink_varnish_cost_rsd,
                                  ret.total_plate_cost_rsd),
                             ret.total_material_cost_rsd),
                        ret.total_machine_labor_cost_rsd),
                   ret.total_tool_cost_rsd)
        /\ ret.total_selling_price_rsd = RAdd(ret.total_production_cost_rsd, ret.profit_rsd)

\* a quote in which each of the five costs and the profit is above zero
C4_Witness ==
    /\ QuoteProduced
    /\ RLt(Zero, ret.total_ink_varnish_cost_rsd)
    /\ RLt(Zero, ret.total_plate_cost_rsd)
    /\ RLt(Zero, ret.total_material_cost_rsd)
    /\ RLt(Zero, ret.total_machine_labor_cost_rsd)
    /\ RLt(Zero, ret.total_tool_cost_rsd)
    /\ RLt(Zero, ret.profit_rsd)

\* C7: in every quote, the profit is 0 when the material cost is 0, and
\* otherwise the material cost times the profit coefficient.
C7_ProfitOnMaterialCost ==
    QuoteProduced =>
        IF ret.total_material_cost_rsd = Zero
        THEN ret.profit_rsd = Zero
        ELSE ret.profit_rsd =
                 RMul(ret.total_material_cost_rsd, call.in.profit_coefficient_input)

\* a quote with a material cost and other costs above zero
C7_Witness ==
    /\ QuoteProduced
    /\ RLt(Zero, ret.total_material_cost_rsd)
    /\ RLt(Zero, ret.total_ink_varnish_cost_rsd)
    /\ RLt(Zero, ret.total_tool_cost_rsd)
    /\ ret.profit_rsd # Zero

\* C9: when a cylinder is found and the label is higher than the working
\* width of 190, no label fits across and the quote is still produced:
\* production length and area are 0 with a diagnostic that says "N/A";
\* required material width, waste area, total area, material cost and
\* profit are 0; the waste length, the setup, cleanup and total time, and
\* the labor, plate and tool costs are those of their own inputs.
C9_DegenerateLayout ==
    (/\ Returned("script")
     /\ ret.outcome # "no cylinder"
     /\ RLt(RInt(190), call.in.template_height_H_input)) =>
        LET in == call.in
            colors == IF in.is_blank THEN 0 ELSE in.num_colors_input
            stations == IF in.is_blank THEN 1 ELSE in.num_colors_input
        IN  /\ ret.outcome = "quote"
            /\ ret.number_across_width_y = 0
            /\ ret.total_production_length_m = Zero
            /\ ret.total_production_area_m2 = Zero
            /\ ret.production_consumption_message # ""
            /\ Contains(ret.production_consumption_message, "N/A")
            /\ ret.required_material_width_mm = Zero
            /\ ret.waste_area_m2 = Zero
            /\ ret.total_final_area_m2 = Zero
            /\ ret.total_material_cost_rsd = Zero
            /\ ret.profit_rsd = Zero
            /\ ret.waste_length_m = RInt(50 + 50 * colors)
            /\ ret.setup_time_min = RInt(30 * stations)
            /\ ret.cleanup_time_min = RInt(30)
            /\ ret.total_time_min = RInt(30 * stations + 30)
            /\ ret.total_machine_labor_cost_rsd =
                  RMul(RDivInt(RInt(30 * stations + 30), 60),
                       in.session_state.machine_labor_price_per_hour)
            /\ ret.total_plate_cost_rsd =
                  RMulInt(in.session_state.plate_price_per_color, colors)
            /\ ret.total_tool_cost_rsd =
                  CASE in.selected_tool_key = "Semirotary" ->
                           in.session_state.tool_price_semirotary
                    [] in.selected_tool_key = "Rotary" ->
                           in.session_state.tool_price_rotary
                    [] OTHER -> Zero

\* a printed job on a label too high for the web, with labor, plates and a
\* rotary tool charged
C9_Witness ==
    /\ QuoteProduced
    /\ RLt(RInt(190), call.in.template_height_H_input)
    /\ ret.number_across_width_y = 0
    /\ ~call.in.is_blank
    /\ call.in.selected_tool_key = "Rotary"
    /\ RLt(Zero, ret.total_machine_labor_cost_rsd)
    /\ RLt(Zero, ret.total_plate_cost_rsd)
    /\ RLt(Zero, ret.total_tool_cost_rsd)

\* C10: with rates out of range (a price or the profit coefficient below
\* zero), every amount of the quote is >= 0: the itemized costs, the total
\* production cost, the profit, the total selling price and the price per
\* piece.
C10_AmountsNotNegative ==
    QuoteProduced =>
        /\ RLeq(Zero, ret.ink_cost_rsd)
        /\ RLeq(Zero, ret.varnish_cost_rsd)
        /\ RLeq(Zero, ret.total_ink_varnish_cost_rsd)
        /\ RLeq(Zero, ret.total_plate_cost_rsd)
        /\ RLeq(Zero, ret.total_material_cost_rsd)
        /\ RLeq(Zero, ret.total_machine_labor_cost_rsd)
        /\ RLeq(Zero, ret.total_tool_cost_rsd)
        /\ RLeq(Zero, ret.total_production_cost_rsd)
        /\ RLeq(Zero, ret.profit_rsd)
        /\ RLeq(Zero, ret.total_selling_price_rsd)
        /\ RLeq(Zero, ret.selling_price_per_piece_rsd)

(***************************************************************************)
(* C11: with the constants of the press (usable width 190, width gap 5,    *)
(* width waste 10, greatest width 200), for every label height the         *)
(* material width calculate_material_width(calculate_number_across_width(  *)
(* H, 190, 5), H, 5, 10) is at most 200: material_width_exceeded is never  *)
(* true and "EXCEEDED" is never shown.                                     *)
(***************************************************************************)
C11_MaterialWidthWithinLimit ==
    Returned("required_material_width") =>
        /\ FloatLeq(ret.required_material_width_mm, FloatOfInt(MAX_MATERIAL_WIDTH))
        /\ ~ret.material_width_exceeded
        /\ ret.material_width_shown # "EXCEEDED"

C13_GapOf(z, n, template_width_W) ==
    CHOOSE gap \in {FloatGap(circumference_C, n, template_width_W) :
                       circumference_C \in {FloatCircumference(z)}} : TRUE

C13_RepeatsOf(z, template_width_W) ==
    CHOOSE n_max \in {FloatNMaxPossible(circumference_C, template_width_W) :
                         circumference_C \in {FloatCircumference(z)}} : TRUE

C13_ClaimedPairs(template_width_W) ==
    {pair \in UNION {{<<z, n>> : n \in 1..(C13_RepeatsOf(z, template_width_W) + 1)} :
                        z \in Z_MIN..Z_MAX} :
        \A gap \in {C13_GapOf(pair[1], pair[2], template_width_W)} :
            FloatLeq(FloatGAP_MIN, gap) /\ FloatLeq(gap, FloatGapUpperLimit)}

C13_CompleteAndLowerToleranceInert ==
    (Returned("find_cylinder_specifications_float")
        /\ FloatLt(FloatZero, call.template_width_W))
    => LET solutions == ret[2]
           returned == {<<solutions[i].number_of_teeth_Z,
                          solutions[i].templates_N_circumference>> :
                           i \in 1..Len(solutions)}
       IN  /\ returned = C13_ClaimedPairs(call.template_width_W)
           /\ Cardinality(returned) = Len(solutions)
           /\ \A i \in 1..Len(solutions) :
                  ~FloatLt(solutions[i].gap_G_circumference_mm, FloatGAP_MIN)

====
